---- MODULE Spec2Model ----
(***************************************************************************)
(* Breadth-first search of pyalgos: the function bfs of src/graph.py (the  *)
(* first version, module "graph") and of src/pyalgos/graph.py (the later   *)
(* version, module "pyalgos.graph"), modelled statement by statement.      *)
(*                                                                         *)
(* A Python list is a TLA+ sequence; the Python index j of a list L is the *)
(* position Pos(L, j), so that negative indices wrap as they do in Python. *)
(* A matrix entry is one of the strings "True", "False", "None", "0", "1". *)
(*                                                                         *)
(* Lists are objects: ref holds the identity of the list object bound to  *)
(* each local of bfs, and kept holds the list objects the caller got from  *)
(* the call before and still holds, by identity. A statement that changes  *)
(* the list bound to a local changes the object of that identity, whoever  *)
(* else holds it.                                                          *)
(***************************************************************************)
EXTENDS Integers, Sequences, FiniteSets, TLC

VARIABLES impl, src, G, is_adjm, get_path, pc, dist, prev, Q, u, i, paths, v,
          pnode, ret,
          deq,    \* history: the vertices Q.pop(0) has returned, in order
          ref,    \* the identities of the list objects bound to the locals
          kept    \* the list objects the caller holds: identity -> value

vars == <<impl, src, G, is_adjm, get_path, pc, dist, prev, Q, u, i, paths, v,
          pnode, ret, deq, ref, kept>>

\* ---------------------------------------------------------------- bounds
MaxN == 3
MaxEdges == 2
RawN == 2
RawEdges == 1
ValN == 2
ValEdges == 2
\* the valid graphs on which termination is checked: at most LiveN vertices
\* and LiveEdges edges, besides the sample graphs
LiveN == 2
LiveEdges == 2

\* ------------------------------------------------------- Python values
\* math.inf: the distance of a vertex not discovered (yet)
inf == -1
\* None, and a value that is not None (prev[v], pnode)
None == <<>>
Some(x) == <<x>>
\* the two modules that define bfs
Impls == {"graph", "pyalgos.graph"}

\* L[j] is defined: -len(L) <= j < len(L)
InRange(L, j) == -Len(L) <= j /\ j < Len(L)
\* the position of L[j] in the sequence L
Pos(L, j) == IF j < 0 THEN Len(L) + j + 1 ELSE j + 1
\* L[j]
Get(L, j) == L[Pos(L, j)]
\* L[j] = x
Set(L, j, x) == [L EXCEPT ![Pos(L, j)] = x]

\* the distance check is dropped: every vertex met counts as undiscovered
UndiscoveredAlways(d) == TRUE
\* dist[v] == math.inf
Undiscovered(d) == d = inf
\* dist[v] = dist[u]: the + 1 is lost
NewDistSame(du) == du
\* dist[u] + 1 (math.inf + 1 is math.inf)
NewDist(du) == IF du = inf THEN inf ELSE du + 1
\* the discovered vertex is not put in the queue
EnqueueLost(q, x) == q
\* Q.insert(0, v): the vertex is put at the front of the queue
EnqueueFront(q, x) == <<x>> \o q
\* Q.append(v)
Enqueue(q, x) == Append(q, x)
\* paths[v].append(pnode): the path is built back to front
PrependAtEnd(path, p) == Append(path, p)
\* paths[v].insert(0, pnode)
Prepend(path, p) == <<p>> \o path

\* any entry but None is an edge (the 05-25-2019 version of pyalgos.graph)
IsEdgeNotNone(val) == val # "None"
\* if G[u][v]: every truthy entry is an edge, the integer 1 too
IsEdgeTruthy(val) == val \in {"True", "1"}
\* pyalgos.graph: (G[u][v] is not None) and (isinstance(G[u][v], bool) and
\* (G[u][v] == True))
IsEdgeNew(val) == val # "None" /\ (val \in {"True", "False"} /\ val = "True")
\* graph: G[u][v] > 0 raises TypeError when G[u][v] is None
GtRaises(val) == val = "None"
\* graph: G[u][v] > 0 (True > 0 and 1 > 0 hold)
GtZero(val) == val \in {"True", "1"}
\* graph: G[u][v] == True (1 == True holds)
EqTrue(val) == val \in {"True", "1"}
\* graph: (G[u][v] > 0) or (G[u][v] == True)
IsEdgeOld(val) == GtZero(val) \/ EqTrue(val)

\* ---------------------------------------------------------------- state
State ==
    [impl |-> impl, src |-> src, G |-> G, is_adjm |-> is_adjm,
     get_path |-> get_path, pc |-> pc, dist |-> dist, prev |-> prev, Q |-> Q,
     u |-> u, i |-> i, paths |-> paths, v |-> v, pnode |-> pnode, ret |-> ret,
     deq |-> deq, ref |-> ref, kept |-> kept]

\* a local that is bound to no list object
Unbound == -1
NoRefs ==
    [dist |-> Unbound, prev |-> Unbound, Q |-> Unbound, paths |-> Unbound,
     rows |-> <<>>]
\* the caller holds no list object
NoObjects == [o \in {} |-> <<>>]

\* the identities of k list objects created now, one after the other: each
\* differs from the identity of every object in used (the objects alive)
NewObjects(used, k) ==
    LET free == (0..(Cardinality(used) + k - 1)) \ used
    IN  [j \in 1..k |->
            CHOOSE x \in free : Cardinality({y \in free : y < x}) = j - 1]

\* the value of the list object o after a step that ends in t: the value of
\* the local it is bound to, if any (paths is a list of its row objects),
\* and else the value it had
ValueOf(t, o) ==
    IF o = t.ref.dist THEN t.dist
    ELSE IF o = t.ref.prev THEN t.prev
    ELSE IF o = t.ref.Q THEN t.Q
    ELSE IF o = t.ref.paths THEN t.ref.rows
    ELSE IF \E j \in 1..Len(t.ref.rows) : t.ref.rows[j] = o
    THEN t.paths[CHOOSE j \in 1..Len(t.ref.rows) : t.ref.rows[j] = o]
    ELSE t.kept[o]
\* the state t in which a step ends, with the objects the caller holds as
\* the step left them
Stored(t) == [t EXCEPT !.kept = [o \in DOMAIN t.kept |-> ValueOf(t, o)]]

\* the state in which bfs(src, G, is_adjm, get_path) of module m is entered
Call(m, s0, g, adjm, gp) ==
    [impl |-> m, src |-> s0, G |-> g, is_adjm |-> adjm, get_path |-> gp,
     pc |-> "start", dist |-> <<>>, prev |-> <<>>, Q |-> <<>>, u |-> 0,
     i |-> 0, paths |-> <<>>, v |-> 0, pnode |-> None, ret |-> "pending",
     deq |-> <<>>, ref |-> NoRefs, kept |-> NoObjects]

\* if n < 1: return None
IsEmptyGraph(n0) == n0 < 1

\* dist and prev are kept from the call before when their length fits (they
\* are created once, outside the function body)
BeginStepStale(s) ==
    LET n0 == Len(s.G)
        d0 == IF Len(s.dist) = n0 THEN s.dist ELSE [j \in 1..n0 |-> inf]
        p0 == IF Len(s.prev) = n0 THEN s.prev ELSE [j \in 1..n0 |-> None]
    IN  IF IsEmptyGraph(n0)
        THEN [s EXCEPT !.pc = "done", !.ret = "None"]
        ELSE IF InRange(d0, s.src)
        THEN [s EXCEPT !.dist = Set(d0, s.src, 0), !.prev = p0,
                       !.Q = <<s.src>>, !.pc = "while"]
        ELSE [s EXCEPT !.dist = d0, !.prev = p0, !.Q = <<s.src>>,
                       !.pc = "done", !.ret = "IndexError"]

\* dist is one list object for all calls (created outside the function
\* body): a call fills it anew in place
BeginStepGlobal(s) ==
    LET n0 == Len(s.G)
        d0 == [j \in 1..n0 |-> inf]
        p0 == [j \in 1..n0 |-> None]
        o == NewObjects(DOMAIN s.kept, 3)
        r0 == [s.ref EXCEPT !.dist = IF s.ref.dist = Unbound THEN o[1]
                                     ELSE s.ref.dist,
                            !.prev = o[2], !.Q = o[3]]
    IN  IF IsEmptyGraph(n0)
        THEN [s EXCEPT !.pc = "done", !.ret = "None"]
        ELSE IF InRange(d0, s.src)
        THEN [s EXCEPT !.dist = Set(d0, s.src, 0), !.prev = p0,
                       !.Q = <<s.src>>, !.ref = r0, !.pc = "while"]
        ELSE [s EXCEPT !.dist = d0, !.prev = p0, !.Q = <<s.src>>,
                       !.ref = r0, !.pc = "done", !.ret = "IndexError"]

\* n = len(G) ... dist[src] = 0; the three lists are new objects
BeginStep(s) ==
    LET n0 == Len(s.G)
        d0 == [j \in 1..n0 |-> inf]
        p0 == [j \in 1..n0 |-> None]
        o == NewObjects(DOMAIN s.kept, 3)
        r0 == [s.ref EXCEPT !.dist = o[1], !.prev = o[2], !.Q = o[3]]
    IN  IF IsEmptyGraph(n0)
        THEN [s EXCEPT !.pc = "done", !.ret = "None"]
        ELSE IF InRange(d0, s.src)
        THEN [s EXCEPT !.dist = Set(d0, s.src, 0), !.prev = p0,
                       !.Q = <<s.src>>, !.ref = r0, !.pc = "while"]
        ELSE [s EXCEPT !.dist = d0, !.prev = p0, !.Q = <<s.src>>,
                       !.ref = r0, !.pc = "done", !.ret = "IndexError"]

\* u = Q[0]: the front of the queue is read and left in the queue
DequeueStepPeek(s) ==
    LET u0 == Head(s.Q)
        empty == ~s.is_adjm /\ Len(Get(s.G, u0)) = 0
    IN  [s EXCEPT !.u = u0, !.i = 0,
                  !.pc = IF empty THEN "while" ELSE "for"]

\* u = Q.pop(): the queue is used as a stack
DequeueStepLifo(s) ==
    LET u0 == s.Q[Len(s.Q)]
        empty == ~s.is_adjm /\ Len(Get(s.G, u0)) = 0
    IN  [s EXCEPT !.u = u0, !.Q = SubSeq(s.Q, 1, Len(s.Q) - 1), !.i = 0,
                  !.deq = Append(s.deq, u0),
                  !.pc = IF empty THEN "while" ELSE "for"]

\* while len(Q) > 0: u = Q.pop(0), and the for loop is entered
DequeueStep(s) ==
    LET u0 == Head(s.Q)
        empty == ~s.is_adjm /\ Len(Get(s.G, u0)) = 0
    IN  [s EXCEPT !.u = u0, !.Q = Tail(s.Q), !.i = 0,
                  !.deq = Append(s.deq, u0),
                  !.pc = IF empty THEN "while" ELSE "for"]

\* the position after one iteration of the for loop over a sequence of len
NextIter(s, len) ==
    [s EXCEPT !.i = s.i + 1, !.pc = IF s.i + 1 < len THEN "for" ELSE "while"]

\* as Discover, and the matrix entry of the edge taken is cleared:
\* G[u][v] = False
DiscoverClears(s, v0) ==
    [s EXCEPT !.dist = Set(s.dist, v0, NewDist(Get(s.dist, s.u))),
              !.Q = Enqueue(s.Q, v0),
              !.G = IF s.is_adjm
                    THEN Set(s.G, s.u, Set(Get(s.G, s.u), v0, "False"))
                    ELSE s.G]

\* dist[v] = dist[u] + 1; Q.append(v)
Discover(s, v0) ==
    [s EXCEPT !.dist = Set(s.dist, v0, NewDist(Get(s.dist, s.u))),
              !.Q = Enqueue(s.Q, v0)]

\* if get_path == True: prev[v] = u
SetPrev(s, v0) ==
    IF s.get_path THEN [s EXCEPT !.prev = Set(s.prev, v0, Some(s.u))] ELSE s

\* an exception ends the call
Raise(s, e) == [s EXCEPT !.pc = "done", !.ret = e]

\* for v in reversed(range(n)): the columns are visited from n-1 down to 0
VisitMatrixNewDown(s) ==
    LET v0 == Len(s.G) - 1 - s.i
        row == Get(s.G, s.u)
    IN  IF ~Undiscovered(Get(s.dist, v0))
        THEN NextIter(s, Len(s.G))
        ELSE IF ~InRange(row, v0)
        THEN Raise(s, "IndexError")
        ELSE IF IsEdgeNew(Get(row, v0))
        THEN NextIter(SetPrev(Discover(s, v0), v0), Len(s.G))
        ELSE NextIter(s, Len(s.G))

\* one iteration of: for v in range(n), module pyalgos.graph
VisitMatrixNew(s) ==
    LET v0 == s.i
        row == Get(s.G, s.u)
    IN  IF ~Undiscovered(Get(s.dist, v0))
        THEN NextIter(s, Len(s.G))
        ELSE IF ~InRange(row, v0)
        THEN Raise(s, "IndexError")
        ELSE IF IsEdgeNew(Get(row, v0))
        THEN NextIter(SetPrev(Discover(s, v0), v0), Len(s.G))
        ELSE NextIter(s, Len(s.G))

\* one iteration of: for v in range(n), module graph; prev[v] = u is set
\* for every v not discovered before, whether or not u -> v is an edge
VisitMatrixOld(s) ==
    LET v0 == s.i
        row == Get(s.G, s.u)
    IN  IF ~Undiscovered(Get(s.dist, v0))
        THEN NextIter(s, Len(s.G))
        ELSE IF ~InRange(row, v0)
        THEN Raise(s, "IndexError")
        ELSE IF GtRaises(Get(row, v0))
        THEN Raise(s, "TypeError")
        ELSE IF IsEdgeOld(Get(row, v0))
        THEN NextIter(SetPrev(Discover(s, v0), v0), Len(s.G))
        ELSE NextIter(SetPrev(s, v0), Len(s.G))

\* prev[v] = u is set for every neighbour v, discovered before or not
VisitListOverwrite(s) ==
    LET row == Get(s.G, s.u)
        v0 == row[s.i + 1]
    IN  IF ~InRange(s.dist, v0)
        THEN Raise(s, "IndexError")
        ELSE IF Undiscovered(Get(s.dist, v0))
        THEN NextIter(SetPrev(Discover(s, v0), v0), Len(row))
        ELSE NextIter(SetPrev(s, v0), Len(row))

\* one iteration of: for v in G[u], both modules
VisitList(s) ==
    LET row == Get(s.G, s.u)
        v0 == row[s.i + 1]
    IN  IF ~InRange(s.dist, v0)
        THEN Raise(s, "IndexError")
        ELSE IF Undiscovered(Get(s.dist, v0))
        THEN NextIter(SetPrev(Discover(s, v0), v0), Len(row))
        ELSE NextIter(s, Len(row))

VisitStep(s) ==
    IF ~s.is_adjm THEN VisitList(s)
    ELSE IF s.impl = "graph" THEN VisitMatrixOld(s)
    ELSE VisitMatrixNew(s)

\* the queue is empty: return dist, or start rebuilding the paths at v = 0
FinishStep(s) ==
    LET n0 == Len(s.G)
        o == NewObjects(DOMAIN s.kept \cup {s.ref.dist, s.ref.prev, s.ref.Q},
                        1 + n0)
    IN  IF s.get_path
        THEN [s EXCEPT !.paths = [j \in 1..n0 |-> <<>>], !.v = 0,
                       !.ref = [s.ref EXCEPT !.paths = o[1],
                                             !.rows = SubSeq(o, 2, 1 + n0)],
                       !.pnode = Some(0), !.pc = "walk"]
        ELSE [s EXCEPT !.pc = "done", !.ret = "dist"]

\* paths = [[]] * n: every entry of the path table is the same list
WalkStepShared(s) ==
    LET p == s.pnode[1]
        t == [s EXCEPT !.paths = [j \in 1..Len(s.paths) |->
                                     Prepend(s.paths[j], p)],
                       !.pnode = Get(s.prev, p)]
    IN  IF t.pnode # None THEN t
        ELSE IF s.v + 1 < Len(s.G)
        THEN [t EXCEPT !.v = s.v + 1, !.pnode = Some(s.v + 1)]
        ELSE [t EXCEPT !.pc = "done", !.ret = "paths"]

\* one iteration of: while pnode is not None, and the step to the next v
WalkStep(s) ==
    LET p == s.pnode[1]
        t == [s EXCEPT !.paths = Set(s.paths, s.v, Prepend(Get(s.paths, s.v), p)),
                       !.pnode = Get(s.prev, p)]
    IN  IF t.pnode # None THEN t
        ELSE IF s.v + 1 < Len(s.G)
        THEN [t EXCEPT !.v = s.v + 1, !.pnode = Some(s.v + 1)]
        ELSE [t EXCEPT !.pc = "done", !.ret = "paths"]

\* the statement bfs executes next
Step(s) ==
    Stored(CASE s.pc = "start" -> BeginStep(s)
             [] s.pc = "while" /\ Len(s.Q) > 0 -> DequeueStep(s)
             [] s.pc = "while" /\ Len(s.Q) = 0 -> FinishStep(s)
             [] s.pc = "for" -> VisitStep(s)
             [] s.pc = "walk" -> WalkStep(s)
             [] OTHER -> s)

RECURSIVE Run(_)
Run(s) == IF s.pc = "done" THEN s ELSE Run(Step(s))

\* the state in which the call bfs(s0, g, is_adjm = adjm, get_path = gp) of
\* module m ends
bfs(m, s0, g, adjm, gp) == Run(Call(m, s0, g, adjm, gp))

Apply(t) ==
    /\ impl' = t.impl /\ src' = t.src /\ G' = t.G /\ is_adjm' = t.is_adjm
    /\ get_path' = t.get_path /\ pc' = t.pc /\ dist' = t.dist
    /\ prev' = t.prev /\ Q' = t.Q /\ u' = t.u /\ i' = t.i
    /\ paths' = t.paths /\ v' = t.v /\ pnode' = t.pnode /\ ret' = t.ret
    /\ deq' = t.deq /\ ref' = t.ref /\ kept' = Stored(t).kept

Begin == pc = "start" /\ Apply(BeginStep(State))
Dequeue == pc = "while" /\ Len(Q) > 0 /\ Apply(DequeueStep(State))
Visit == pc = "for" /\ Apply(VisitStep(State))
Finish == pc = "while" /\ Len(Q) = 0 /\ Apply(FinishStep(State))
Walk == pc = "walk" /\ Apply(WalkStep(State))

Next == Begin \/ Dequeue \/ Visit \/ Finish \/ Walk

\* ---------------------------------------------------------------- inputs
\* the sequences of length k over S
RECURSIVE SeqsOf(_, _)
SeqsOf(S, k) ==
    IF k = 0 THEN {<<>>}
    ELSE {Append(r, x) : r \in SeqsOf(S, k - 1), x \in S}

\* the number of entries "True" of a matrix row
RECURSIVE Trues(_)
Trues(r) ==
    IF r = <<>> THEN 0
    ELSE (IF Head(r) = "True" THEN 1 ELSE 0) + Trues(Tail(r))

\* the neighbour lists over vals of at most b entries
ListRows(vals, b) == UNION {SeqsOf(vals, k) : k \in 0..b}
\* the matrix rows of a length in lens with at most b entries "True"
MatrixRows(lens, b) ==
    {r \in UNION {SeqsOf({"True", "False"}, k) : k \in lens} : Trues(r) <= b}

\* the adjacency lists of rows vertices with at most b entries in all
RECURSIVE AdjLists(_, _, _)
AdjLists(rows, vals, b) ==
    IF rows = 0 THEN {<<>>}
    ELSE UNION {{<<r>> \o g : g \in AdjLists(rows - 1, vals, b - Len(r))} :
                r \in ListRows(vals, b)}

\* the matrices of rows rows with at most b entries "True" in all
RECURSIVE AdjMatrices(_, _, _)
AdjMatrices(rows, lens, b) ==
    IF rows = 0 THEN {<<>>}
    ELSE UNION {{<<r>> \o g : g \in AdjMatrices(rows - 1, lens, b - Trues(r))} :
                r \in MatrixRows(lens, b)}

\* the sample graphs u_dag01 and u_dag02
u_dag01_al == <<<<1, 2, 4>>, <<>>, <<3, 4, 5>>, <<>>, <<3, 5>>, <<>>>>
u_dag02_al == <<<<1, 2, 3, 4, 5>>, <<3>>, <<4, 5>>, <<5>>, <<>>, <<>>>>
\* the boolean matrix of an adjacency list
ToMatrix(L) ==
    [a \in 1..Len(L) |->
        [b \in 1..Len(L) |->
            IF \E k \in 1..Len(L[a]) : L[a][k] = b - 1 THEN "True"
            ELSE "False"]]
T == "True"
F == "False"
u_dag01_am ==
    <<<<F, T, T, F, T, F>>,
      <<F, F, F, F, F, F>>,
      <<F, F, F, T, T, T>>,
      <<F, F, F, F, F, F>>,
      <<F, F, F, T, F, T>>,
      <<F, F, F, F, F, F>>>>
u_dag02_am ==
    <<<<F, T, T, T, T, T>>,
      <<F, F, F, T, F, F>>,
      <<F, F, F, F, T, T>>,
      <<F, F, F, F, F, T>>,
      <<F, F, F, F, F, F>>,
      <<F, F, F, F, F, F>>>>
\* a graph with two shortest paths 0 -> 3, its neighbour lists not in
\* increasing order, a duplicate entry, a cycle 3 -> 0, and a vertex 4 that
\* no edge enters
diamond_al == <<<<2, 1>>, <<3>>, <<3, 3>>, <<0>>, <<0>>>>
diamond_am == ToMatrix(diamond_al)
Samples_al == {u_dag01_al, u_dag02_al, diamond_al}
Samples_am == {u_dag01_am, u_dag02_am, diamond_am}

\* valid inputs: 1 <= n, every neighbour index in 0..n-1, square matrices of
\* booleans, 0 <= src < n
ValidLists ==
    UNION {AdjLists(m, 0..(m - 1), MaxEdges) : m \in 1..MaxN}
ValidMatrices ==
    UNION {AdjMatrices(m, {m}, MaxEdges) : m \in 1..MaxN}

\* the call is entered in state t
Enter(t) ==
    /\ impl = t.impl /\ src = t.src /\ G = t.G /\ is_adjm = t.is_adjm
    /\ get_path = t.get_path /\ pc = t.pc /\ dist = t.dist
    /\ prev = t.prev /\ Q = t.Q /\ u = t.u /\ i = t.i
    /\ paths = t.paths /\ v = t.v /\ pnode = t.pnode /\ ret = t.ret
    /\ deq = t.deq /\ ref = t.ref /\ kept = t.kept

InitWith(lists, matrices, srcs(_)) ==
    \E m \in Impls, gp \in BOOLEAN, adjm \in BOOLEAN :
        \E g \in IF adjm THEN matrices ELSE lists :
            \E s0 \in srcs(g) :
                Enter(Call(m, s0, g, adjm, gp))

ValidSrc(g) == 0..(Len(g) - 1)
Init ==
    InitWith(ValidLists \cup Samples_al, ValidMatrices \cup Samples_am,
             ValidSrc)

Spec == Init /\ [][Next]_vars

\* any inputs: n >= 0, neighbour indices from -(n+1) to n, matrix rows of
\* n-1 to n+1 booleans, src from -(n+1) to n, and src = 10
RawLists ==
    UNION {AdjLists(m, (-(m + 1))..m, RawEdges) : m \in 0..RawN}
RawMatrices ==
    UNION {AdjMatrices(m, {k \in {m - 1, m, m + 1} : k >= 0}, RawEdges) :
           m \in 0..RawN}
RawSrc(g) == ((-(Len(g) + 1))..Len(g)) \cup {10}
InitRaw ==
    InitWith(RawLists \cup {u_dag01_al}, RawMatrices \cup {u_dag01_am}, RawSrc)

SpecRaw == InitRaw /\ [][Next]_vars

\* a sequential program always executes its next statement
InitLive ==
    InitWith(UNION {AdjLists(m, 0..(m - 1), LiveEdges) : m \in 1..LiveN}
                 \cup Samples_al,
             UNION {AdjMatrices(m, {m}, LiveEdges) : m \in 1..LiveN}
                 \cup Samples_am,
             ValidSrc)
SpecLive == InitLive /\ [][Next]_vars /\ WF_vars(Next)

\* bfs is called again after it has returned, as the main program of
\* pyalgos_test.py calls it three times in a row: on u_dag01_al, on
\* u_dag01_am and on u_dag01_al again, with src = 0 in path mode (test.py
\* makes the first two). The locals of the new call are unbound until
\* assigned: the model leaves the values of the call before in them, so that
\* a statement reading a local it has not assigned would read what the
\* earlier call wrote. The history deq starts anew. These programs pass the
\* result to print and hold no list when they call again; a caller may also
\* bind the result to a name and hold it while it calls again. Recall does
\* either.
\* the list objects a call has returned: the distance vector, or the path
\* table and its rows
Returned ==
    IF ret = "dist" THEN [o \in {ref.dist} |-> dist]
    ELSE IF ret = "paths"
    THEN [o \in {ref.paths} \cup {ref.rows[j] : j \in 1..Len(ref.rows)} |->
             ValueOf(State, o)]
    ELSE NoObjects
CallInputs ==
    {Call(m, s0, g[1], g[2], gp) :
        m \in Impls, s0 \in {0, 2}, gp \in BOOLEAN,
        g \in {<<u_dag01_al, FALSE>>, <<u_dag01_am, TRUE>>,
               <<diamond_al, FALSE>>, <<diamond_am, TRUE>>}}
Recall ==
    /\ pc = "done"
    /\ \E c \in CallInputs :
        /\ impl' = c.impl /\ src' = c.src /\ G' = c.G /\ is_adjm' = c.is_adjm
        /\ get_path' = c.get_path
    /\ pc' = "start" /\ ret' = "pending" /\ deq' = <<>>
    /\ \E keep \in BOOLEAN : kept' = IF keep THEN Returned ELSE NoObjects
    /\ UNCHANGED <<dist, prev, Q, u, i, paths, v, pnode, ref>>
InitCalls == \E c \in CallInputs : Enter(c)
NextCalls == Next \/ Recall
SpecCalls == InitCalls /\ [][NextCalls]_vars

\* square matrices whose entries are booleans, None, or the integers 0, 1
Vals == {"True", "False", "None", "0", "1"}
\* the number of entries of a matrix row other than False
RECURSIVE NonFalse(_)
NonFalse(r) ==
    IF r = <<>> THEN 0
    ELSE (IF Head(r) # "False" THEN 1 ELSE 0) + NonFalse(Tail(r))
\* the matrices of rows rows of length len with at most b entries other than
\* False in all
RECURSIVE ValMatrices(_, _, _)
ValMatrices(rows, len, b) ==
    IF rows = 0 THEN {<<>>}
    ELSE UNION {{<<r>> \o g : g \in ValMatrices(rows - 1, len, b - NonFalse(r))} :
                r \in {q \in SeqsOf(Vals, len) : NonFalse(q) <= b}}
InitVals ==
    InitWith({}, UNION {ValMatrices(m, m, ValEdges) : m \in 1..ValN}, ValidSrc)

SpecVals == InitVals /\ [][Next]_vars

\* the matrix g with every entry other than the boolean true made False
Booleanise(g) ==
    [a \in 1..Len(g) |->
        [b \in 1..Len(g[a]) |-> IF g[a][b] = "True" THEN "True" ELSE "False"]]

\* ------------------------------------------------------------ the graph
n == Len(G)
V == 0..(n - 1)
\* a -> b is an edge of the graph g: b occurs in the neighbour list of a,
\* or the matrix entry (a, b) is the boolean true
Edge(g, adjm, a, b) ==
    IF adjm THEN g[a + 1][b + 1] = "True"
    ELSE \E k \in 1..Len(g[a + 1]) : g[a + 1][k] = b

\* W[k + 1] is the set of vertices at the end of a directed path of exactly
\* k edges from the source, for k < n; acc holds the first sets of W
RECURSIVE PathEnds(_, _, _)
PathEnds(g, adjm, acc) ==
    IF Len(acc) >= Len(g) THEN acc
    ELSE PathEnds(g, adjm,
            Append(acc, {b \in 0..(Len(g) - 1) :
                            \E a \in acc[Len(acc)] : Edge(g, adjm, a, b)}))
\* the sets W of the graph and source of the call
Ends == PathEnds(G, is_adjm, <<{src}>>)

\* some directed path leads from the source to x (one of fewer than n edges
\* if any)
Reachable(W, x) == \E k \in 1..Len(W) : x \in W[k]

\* the least number of edges of a directed path from the source to x, inf if
\* there is none
MinDist(W, x) ==
    IF Reachable(W, x)
    THEN CHOOSE k \in 0..(Len(W) - 1) :
            /\ x \in W[k + 1]
            /\ \A j \in 0..(k - 1) : x \notin W[j + 1]
    ELSE inf

\* the least number of edges of a directed path from a to x, inf if none
DistFrom(g, adjm, a, x) == MinDist(PathEnds(g, adjm, <<{a}>>), x)

\* the shortest path from cur to x, of k edges, that takes at each step the
\* next hop of least index among those on some shortest path to x
RECURSIVE LexMinPath(_, _, _, _, _)
LexMinPath(g, adjm, cur, x, k) ==
    IF k = 0 THEN <<cur>>
    ELSE LET C == {b \in 0..(Len(g) - 1) :
                     Edge(g, adjm, cur, b) /\ DistFrom(g, adjm, b, x) = k - 1}
             b0 == CHOOSE b \in C : \A c \in C : b <= c
         IN  <<cur>> \o LexMinPath(g, adjm, b0, x, k - 1)

\* the elements of a sequence
Elems(p) == {p[k] : k \in 1..Len(p)}
\* the position of the first occurrence of x in the sequence p, 0 if none
FirstOcc(p, x) ==
    IF x \in Elems(p)
    THEN CHOOSE k \in 1..Len(p) : p[k] = x /\ \A j \in 1..(k - 1) : p[j] # x
    ELSE 0
\* the vertices ever put in the queue, in the order they were put in
Enqueued == deq \o Q

\* the ways a call ends: by a return statement, by an exception
Returns == {"None", "dist", "paths"}
Raised == {"IndexError", "TypeError"}
\* a matrix row of a length other than n, a neighbour index outside 0..n-1
Malformed(g, adjm) ==
    IF adjm THEN \E a \in 1..Len(g) : Len(g[a]) # Len(g)
    ELSE \E a \in 1..Len(g) : \E k \in 1..Len(g[a]) :
            g[a][k] \notin 0..(Len(g) - 1)
\* the call has returned its distance vector / its path table
ReturnedDist == pc = "done" /\ ret = "dist"
ReturnedPaths == pc = "done" /\ ret = "paths"

\* ---------------------------------------------------------------- claims
\* C1: on a valid graph and source, the distances-only call returns a vector
\* of length n with dist[src] = 0, dist[x] the least number of edges of a
\* path src -> x, and dist[x] = inf exactly when x is not reachable.
C1_DistancesAreShortest ==
    (pc = "done" /\ ~get_path) =>
        /\ ret = "dist"
        /\ Len(dist) = n
        /\ dist[src + 1] = 0
        /\ LET W == Ends
           IN  \A x \in V :
                /\ dist[x + 1] = MinDist(W, x)
                /\ (dist[x + 1] = inf <=> ~Reachable(W, x))

\* a distances-only call has returned with a vertex at distance 2 and an
\* unreachable one
C1_Witness ==
    /\ ReturnedDist
    /\ \E x, y \in V : dist[x + 1] = 2 /\ dist[y + 1] = inf

\* C2: in path mode the path of every reachable vertex x starts with src,
\* ends with x, follows edges of the graph, and has as many edges as the
\* distance the distances-only call returns for x.
C2_PathsRealiseDistances ==
    (pc = "done" /\ get_path) =>
        /\ ret = "paths"
        /\ Len(paths) = n
        /\ LET d == bfs(impl, src, G, is_adjm, FALSE).dist
               W == Ends
           IN  \A x \in V : Reachable(W, x) =>
                LET p == paths[x + 1]
                IN  /\ Len(p) >= 1
                    /\ p[1] = src
                    /\ p[Len(p)] = x
                    /\ \A k \in 1..(Len(p) - 1) :
                            /\ p[k] \in V /\ p[k + 1] \in V
                            /\ Edge(G, is_adjm, p[k], p[k + 1])
                    /\ Len(p) - 1 = d[x + 1]

\* a path table has been returned that holds a path of two edges
C2_Witness ==
    /\ ReturnedPaths
    /\ \E x \in V : Len(paths[x + 1]) = 3 /\ paths[x + 1][1] = src
                     /\ paths[x + 1][3] = x

\* C3: in path mode the entry of src is [src] and the entry of every
\* unreachable vertex x is [x], in both modules and both representations.
C3_SingletonPaths ==
    ReturnedPaths =>
        /\ paths[src + 1] = <<src>>
        /\ LET W == Ends
           IN  \A x \in V : ~Reachable(W, x) => paths[x + 1] = <<x>>

\* C4: an unreachable vertex x occurs in no path table entry but its own.
C4_UnreachableNotOnPaths ==
    ReturnedPaths =>
        LET W == Ends
        IN  \A x \in V : ~Reachable(W, x) =>
                \A w \in V \ {x} : x \notin Elems(paths[w + 1])

\* a path table has been returned with an unreachable vertex and a path of
\* two edges to another vertex
C4_Witness ==
    /\ ReturnedPaths
    /\ \E x \in V : ~Reachable(Ends, x)
    /\ \E w \in V : Len(paths[w + 1]) = 3 /\ paths[w + 1][1] = src

\* C5: a call on a graph with n < 1 ends with an explicit error
\* and not by returning.
C5_EmptyGraphError ==
    (pc = "done" /\ n < 1) => ret \notin Returns

\* C6: on a graph with n >= 1, a call with src outside 0..n-1 ends with an
\* out-of-range error and returns no distance vector or path table.
C6_OutOfRangeSrc ==
    (pc = "done" /\ n >= 1 /\ src \notin V) => ret = "IndexError"

\* C7: a malformed graph is rejected before the traversal: the call ends
\* with an error, no vertex but src was ever in the queue and no distance but
\* that of src was set.
C7_MalformedRejected ==
    (pc = "done" /\ n >= 1 /\ src \in V /\ Malformed(G, is_adjm)) =>
        /\ ret \in Raised
        /\ \A x \in V \ {src} : dist[x + 1] = inf

\* C8 as stated: from src = 0 the distances-only call returns [0,1,1,2,2,2]
\* for the sample graph u_dag01, as adjacency list and as adjacency matrix.
C8_SampleDistancesAsStated ==
    (pc = "done" /\ ~get_path /\ src = 0
        /\ G \in {u_dag01_al, u_dag01_am}) =>
        ret = "dist" /\ dist = <<0, 1, 1, 2, 2, 2>>

\* C8 as amended: from src = 0 the distances-only call returns
\* [0,1,1,2,1,2] for the sample graph u_dag01 (0 -> 4 is an edge), as
\* adjacency list and as adjacency matrix, and the matrix has the edges of
\* the list.
C8_SampleDistances ==
    /\ u_dag01_am = ToMatrix(u_dag01_al)
    /\ (pc = "done" /\ ~get_path /\ src = 0
            /\ G \in {u_dag01_al, u_dag01_am}) =>
        ret = "dist" /\ dist = <<0, 1, 1, 2, 1, 2>>

\* the distances-only call on the matrix u_dag01_am from 0 has returned
C8_Witness ==
    ReturnedDist /\ src = 0 /\ G = u_dag01_am /\ is_adjm
        /\ impl = "pyalgos.graph"

\* C9: in path mode on the adjacency list u_dag01_al from src = 0, the path
\* of 3 is [0,2,3] and the path of 5 is [0,2,5]; when 4 is dequeued, 2 has
\* left the queue and 5 has its distance.
C9_SamplePaths ==
    (get_path /\ src = 0 /\ G = u_dag01_al /\ ~is_adjm) =>
        /\ pc = "done" =>
            /\ ret = "paths"
            /\ paths[4] = <<0, 2, 3>>
            /\ paths[6] = <<0, 2, 5>>
        /\ (pc = "for" /\ u = 4) =>
            /\ 2 \notin Elems(Q)
            /\ prev[3] # None
            /\ prev[6] = Some(2)

\* the path-mode call on u_dag01_al from 0 has returned, module graph as
\* src/test.py calls it
C9_Witness ==
    ReturnedPaths /\ src = 0 /\ G = u_dag01_al /\ impl = "graph"
        /\ Len(paths[6]) = 3

\* C10 as stated: an adjacency list and its boolean matrix give the same
\* distance vector, and in path mode the two paths of every vertex have as
\* many edges as its distance.
C10_PathEdgesEqualDistance ==
    (pc = "done" /\ ~is_adjm /\ impl = "pyalgos.graph") =>
        LET rM == bfs(impl, src, ToMatrix(G), TRUE, get_path)
            d == bfs(impl, src, G, FALSE, FALSE).dist
        IN  /\ rM.ret = ret
            /\ ~get_path => rM.dist = dist
            /\ get_path => \A x \in V :
                    /\ Len(paths[x + 1]) - 1 = d[x + 1]
                    /\ Len(rM.paths[x + 1]) - 1 = d[x + 1]

\* C10 as amended: an adjacency list and its boolean matrix give the same
\* distance vector; in path mode the two paths of every vertex have the same
\* number of edges, which is its distance if the vertex is reachable (the
\* path of an unreachable vertex has no edge, its distance is inf).
C10_RepresentationEquivalence ==
    (pc = "done" /\ ~is_adjm /\ impl = "pyalgos.graph") =>
        LET rM == bfs(impl, src, ToMatrix(G), TRUE, get_path)
            d == bfs(impl, src, G, FALSE, FALSE).dist
        IN  /\ rM.ret = ret
            /\ ~get_path => rM.dist = dist
            /\ get_path => \A x \in V :
                    /\ Len(paths[x + 1]) = Len(rM.paths[x + 1])
                    /\ d[x + 1] # inf => Len(paths[x + 1]) - 1 = d[x + 1]
                    /\ d[x + 1] = inf => Len(paths[x + 1]) - 1 = 0

\* the path-mode call on an adjacency list has returned a path table that
\* differs from the one its matrix gives, with a vertex left unreachable
C10_Witness ==
    /\ ReturnedPaths /\ ~is_adjm /\ impl = "pyalgos.graph"
    /\ bfs(impl, src, ToMatrix(G), TRUE, TRUE).paths # paths
    /\ \E x \in V : dist[x + 1] = inf

\* C11: in adjacency-matrix mode the path returned for a reachable vertex x
\* is the shortest path that takes, at each step from src, the next hop of
\* least index among those on some shortest path to x.
C11_MatrixPathIsLexMin ==
    (ReturnedPaths /\ is_adjm) =>
        LET W == Ends
        IN  \A x \in V : Reachable(W, x) =>
                paths[x + 1] = LexMinPath(G, TRUE, src, x, MinDist(W, x))

\* a path table has been returned in matrix mode for the graph with the two
\* shortest paths 0 -> 1 -> 3 and 0 -> 2 -> 3
C11_Witness ==
    /\ ReturnedPaths /\ is_adjm /\ G = diamond_am /\ src = 0
    /\ paths[4] = <<0, 1, 3>>

\* C12, the state: in adjacency-list mode the predecessor recorded for x is the first
\* vertex in dequeue order whose neighbour list holds x (and one is recorded
\* if a dequeued vertex holds x), the vertices discovered from one vertex p
\* are enqueued in the order of their first occurrence in p's list, and a
\* recorded predecessor is never overwritten.
C12_FirstRecorded ==
    (~is_adjm /\ get_path) =>
        /\ \A x \in 1..Len(prev) : prev[x] # None =>
                LET p == prev[x][1]
                    k == FirstOcc(deq, p)
                IN  /\ k > 0
                    /\ (x - 1) \in Elems(G[p + 1])
                    /\ \A j \in 1..(k - 1) : (x - 1) \notin Elems(G[deq[j] + 1])
        /\ pc = "done" =>
                \A x \in V \ {src} :
                    (\E j \in 1..Len(deq) : x \in Elems(G[deq[j] + 1]))
                        => prev[x + 1] # None
        /\ \A j, k \in 1..Len(Enqueued) :
                LET a == Enqueued[j]
                    b == Enqueued[k]
                IN  (j < k /\ prev[a + 1] # None /\ prev[a + 1] = prev[b + 1]) =>
                        LET row == G[prev[a + 1][1] + 1]
                        IN  FirstOcc(row, a) < FirstOcc(row, b)
\* C12, the step: no step changes a predecessor that is recorded
C12_NeverOverwritten ==
    ~is_adjm =>
        \A x \in 1..Len(prev) : prev[x] # None => prev'[x] = prev[x]
\* C12: first discovered wins, in every state and over every step
C12_FirstDiscoveredWins ==
    [](C12_FirstRecorded) /\ [][C12_NeverOverwritten]_vars

\* the path-mode call on the adjacency list with neighbours [2, 1] of 0 has
\* returned: 2 was dequeued before 1 and is the predecessor of 3
C12_Witness ==
    /\ ReturnedPaths /\ ~is_adjm /\ G = diamond_al /\ src = 0
    /\ deq = <<0, 2, 1, 3>> /\ prev[4] = Some(2)

\* C13: in adjacency-matrix mode of pyalgos.graph an entry is an edge iff it
\* is the boolean true: the call returns, its distances are the shortest
\* distances over the entries that are true, and its result is the result
\* for the matrix with False in place of every None, 0 and 1.
C13_OnlyTrueIsEdge ==
    (pc = "done" /\ is_adjm /\ impl = "pyalgos.graph") =>
        LET r == bfs(impl, src, Booleanise(G), TRUE, get_path)
            W == Ends
        IN  /\ ret = IF get_path THEN "paths" ELSE "dist"
            /\ ret = r.ret /\ dist = r.dist /\ paths = r.paths
            /\ \A x \in V : dist[x + 1] = MinDist(W, x)

\* a call of pyalgos.graph has returned for a matrix whose row src holds a
\* 1 at a vertex that is left unreachable, and that holds a None as well
C13_Witness ==
    /\ pc = "done" /\ is_adjm /\ impl = "pyalgos.graph" /\ ret = "paths"
    /\ \E x \in V : G[src + 1][x + 1] = "1" /\ dist[x + 1] = inf
    /\ \E a, b \in V : G[a + 1][b + 1] = "None"

\* C14: no step of a call changes the caller's graph (nor src, is_adjm and
\* get_path), so that the graph is at the return what it was at the call,
\* and no step of a call changes a list object the caller holds from the
\* call before (the returned distance vector, or the returned path table and
\* its rows).
C14_NoSideEffect ==
    [][pc # "done" =>
          /\ G' = G /\ src' = src /\ is_adjm' = is_adjm /\ get_path' = get_path
          /\ kept' = kept]_vars

\* a distances-only call has returned while the caller holds the distance
\* vector of the call before, of the same length and with other entries,
\* and the call took an edge of a matrix which is still true
C14_Witness ==
    /\ ReturnedDist /\ is_adjm
    /\ \E o \in DOMAIN kept :
        Len(kept[o]) = Len(dist) /\ kept[o] # dist /\ o # ref.dist
    /\ \E x \in V : dist[x + 1] = 1 /\ G[src + 1][x + 1] = "True"

\* C15: a call returns what the same call returns when no call was made
\* before it, whatever calls were made before it and whatever they left.
C15_Deterministic ==
    pc = "done" =>
        LET r == bfs(impl, src, G, is_adjm, get_path)
        IN  /\ ret = r.ret
            /\ ret = "dist" => dist = r.dist
            /\ ret = "paths" => paths = r.paths

\* a distances-only call has returned after an earlier path-mode call on a
\* graph of another size, whose path table is still there
C15_Witness ==
    ReturnedDist /\ paths # <<>> /\ Len(paths) # Len(dist)

\* the backward walk from x over the predecessor vector p reaches an unset
\* predecessor within k steps
RECURSIVE ChainEnds(_, _, _)
ChainEnds(p, x, k) ==
    IF k = 0 THEN FALSE
    ELSE IF Get(p, x) = None THEN TRUE
    ELSE ChainEnds(p, Get(p, x)[1], k - 1)

\* C16: every call on a valid graph with a valid src returns, with the queue
\* empty, and at every state of the call the backward walk over prev from
\* each vertex reaches an unset predecessor within n steps (the predecessor
\* chain has no cycle).
C16_Terminates ==
    /\ <>(pc = "done" /\ Q = <<>> /\ ret \in {"dist", "paths"})
    /\ [](pc # "start" => \A x \in V : ChainEnds(prev, x, n))

\* a path-mode call has returned on a graph in which src lies on a cycle
\* with a vertex discovered from src
C16_Witness ==
    /\ ReturnedPaths
    /\ \E x \in V \ {src} :
        /\ Edge(G, is_adjm, src, x) /\ Edge(G, is_adjm, x, src)
        /\ prev[x + 1] = Some(src)

\* no vertex is twice among the vertices put in the queue so far, and a
\* vertex is among them iff its distance is finite
EnqueuedOnce ==
    /\ \A j, k \in 1..Len(Enqueued) : Enqueued[j] = Enqueued[k] => j = k
    /\ \A x \in V : x \in Elems(Enqueued) <=> dist[x + 1] # inf
\* the vertices put in the queue so far are those reachable from src
EnqueuedAreReachable ==
    LET W == Ends IN \A x \in V : x \in Elems(Enqueued) <=> Reachable(W, x)

\* C17 as stated: at every state of the traversal no vertex was enqueued
\* twice, the enqueued vertices are those of finite distance, and whenever
\* the queue is empty they are the vertices reachable from src.
C17_EnqueuedOnceAsStated ==
    pc # "start" =>
        /\ EnqueuedOnce
        /\ Q = <<>> => EnqueuedAreReachable

\* C17: at every state of the traversal no vertex was enqueued twice and the
\* enqueued vertices are those of finite distance; they are all reachable
\* from src, and when the queue is found empty at the test of the while loop
\* (and from then on) they are all the vertices reachable from src.
C17_EnqueuedOnce ==
    pc # "start" =>
        /\ EnqueuedOnce
        /\ LET W == Ends IN \A x \in Elems(Enqueued) : Reachable(W, x)
        /\ (Q = <<>> /\ pc # "for") => EnqueuedAreReachable

\* the queue is found empty at the loop test after a traversal that met src
\* again over an edge from another vertex and left a vertex unreached
C17_Witness ==
    /\ pc = "while" /\ Q = <<>> /\ Len(deq) >= 2
    /\ \E x \in V : x \notin Elems(deq)
    /\ \E x \in Elems(deq) \ {src} : Edge(G, is_adjm, x, src)

\* C18: on an adjacency list or a boolean matrix with a valid src, the call
\* returns what the other implementation returns for the same arguments:
\* the same distances, and in path mode the same path table.
C18_ImplementationsAgree ==
    pc = "done" =>
        \A m \in Impls :
            LET r == bfs(m, src, G, is_adjm, get_path)
            IN  ret = r.ret /\ dist = r.dist /\ paths = r.paths

\* the vertices dequeued so far were dequeued in non-decreasing order of
\* their distance from src; the distances of the queued vertices are
\* non-decreasing from front to back and differ by at most 1
FifoOrder ==
    LET W == Ends
    IN  /\ \A j, k \in 1..Len(deq) :
            j < k => MinDist(W, deq[j]) <= MinDist(W, deq[k])
        /\ \A x \in Elems(deq) : dist[x + 1] = MinDist(W, x)
        /\ \A j, k \in 1..Len(Q) :
            j < k => /\ dist[Q[j] + 1] # inf
                     /\ dist[Q[j] + 1] <= dist[Q[k] + 1]
                     /\ dist[Q[k] + 1] <= dist[Q[j] + 1] + 1
\* a step leaves every distance that is finite as it is
DistanceKept ==
    \A x \in 1..Len(dist) : dist[x] # inf => dist'[x] = dist[x]

\* C19: vertices are dequeued in non-decreasing order of their final
\* distance; at every state the distances of the queued vertices, front to
\* back, are non-decreasing and differ by at most 1; a distance once finite
\* is never changed.
C19_FifoFrontier ==
    [](pc # "start" => FifoOrder) /\ [][DistanceKept]_vars

\* the queue holds a vertex of the current level in front of one of the next
\* level, after two vertices were dequeued
C19_Witness ==
    /\ Len(deq) >= 2 /\ Len(Q) >= 2
    /\ dist[Q[Len(Q)] + 1] = dist[Q[1] + 1] + 1
====
